---- MODULE Spec2Model ----
(***************************************************************************)
(* A model of eth-wasm's Provider (src/src/lib.rs): the typed request      *)
(* pipeline over window.ethereum, the error classification, the chain      *)
(* registry and the event subscriptions.                                   *)
(*                                                                         *)
(* Conventions.                                                            *)
(*  - A text (Rust String / &str) is a sequence of fragments.  A text the  *)
(*    program parses (a hex chain id, a number's decimal form) holds one   *)
(*    character per fragment; a text it only passes along (an error        *)
(*    message, an address) may be one fragment.                            *)
(*  - An unsigned big integer (U128, U256, u32) is its sequence of hex     *)
(*    digits (0..15), most significant first, without leading zeros; zero  *)
(*    is << >>.  Widths are counted in hex digits, so no value is cut by   *)
(*    the width of the checker's own integers.                             *)
(*  - A JSON value (serde_json::Value) is [t |-> tag, v |-> content].      *)
(*  - Option<T> is [some |-> BOOLEAN, x |-> content].                      *)
(*  - Result<T, E> is [tag |-> "Ok" | "Err", v |-> content].               *)
(***************************************************************************)
EXTENDS Integers, Sequences, FiniteSets, TLC

VARIABLES
    window_ethereum, \* whether the host injected window.ethereum
    provider,        \* "unconstructed" | "Some" | "None": what Provider::new returned
    listeners,       \* the listeners registered on the EthereumProvider, in order
    calls,           \* per event name, the registrations this library has asked for
    inflight,        \* per caller slot, the high-level call suspended in request()
    last,            \* what the most recent handler run produced, and what it ran on
    panicked         \* "none", or the message of the panic that aborted the program

vars == <<window_ethereum, provider, listeners, calls, inflight, last, panicked>>

(***************************************************************************)
(* Bounds of the model.                                                    *)
(***************************************************************************)
MaxRequests == 2
MaxListeners == 2

(***************************************************************************)
(* Option and Result.                                                      *)
(***************************************************************************)
None == [some |-> FALSE, x |-> << >>]
Some(x) == [some |-> TRUE, x |-> x]
Ok(v) == [tag |-> "Ok", v |-> v]
Err(e) == [tag |-> "Err", v |-> e]

(***************************************************************************)
(* JSON values, and the one JsValue JSON.stringify cannot serialise.       *)
(***************************************************************************)
JNull == [t |-> "null", v |-> << >>]
JNum(n) == [t |-> "num", v |-> n]
JStr(s) == [t |-> "str", v |-> s]
JArr(a) == [t |-> "arr", v |-> a]
JObj(o) == [t |-> "obj", v |-> o]
NotJson == [t |-> "unserialisable", v |-> << >>]

(***************************************************************************)
(* Unsigned integers as hex digit sequences.                               *)
(***************************************************************************)
RECURSIVE StripZeros(_)
StripZeros(ds) ==
    IF ds # << >> /\ Head(ds) = 0 THEN StripZeros(Tail(ds)) ELSE ds

RECURSIVE U(_)
\* The hex digits of a small natural number: the literals of the source.
U(n) == IF n = 0 THEN << >> ELSE Append(U(n \div 16), n % 16)

IsHexChar(c) ==
    c \in {"0", "1", "2", "3", "4", "5", "6", "7", "8", "9",
           "a", "b", "c", "d", "e", "f", "A", "B", "C", "D", "E", "F"}

HexVal(c) ==
    CASE c = "0" -> 0 [] c = "1" -> 1 [] c = "2" -> 2 [] c = "3" -> 3
      [] c = "4" -> 4 [] c = "5" -> 5 [] c = "6" -> 6 [] c = "7" -> 7
      [] c = "8" -> 8 [] c = "9" -> 9
      [] c \in {"a", "A"} -> 10 [] c \in {"b", "B"} -> 11
      [] c \in {"c", "C"} -> 12 [] c \in {"d", "D"} -> 13
      [] c \in {"e", "E"} -> 14 [] c \in {"f", "F"} -> 15

DecChar(d) ==
    CASE d = 0 -> "0" [] d = 1 -> "1" [] d = 2 -> "2" [] d = 3 -> "3"
      [] d = 4 -> "4" [] d = 5 -> "5" [] d = 6 -> "6" [] d = 7 -> "7"
      [] d = 8 -> "8" [] d = 9 -> "9"

\* str::strip_prefix("0x").unwrap_or(value)
StripPrefix(s) ==
    IF Len(s) >= 2 /\ s[1] = "0" /\ s[2] = "x" THEN SubSeq(s, 3, Len(s)) ELSE s

\* The hex digits of a text whose characters are all hex characters.
HexDigits(s) == StripZeros([i \in 1..Len(s) |-> HexVal(s[i])])

U128_HEX_LEN == 32
U256_HEX_LEN == 64
U32_HEX_LEN == 8

\* <U128 as FromStr>::from_str: the prefix is optional, at most 32 hex
\* characters, the empty text is zero.
U128_from_str(s) ==
    LET body == StripPrefix(s) IN
    IF Len(body) > U128_HEX_LEN THEN Err("InvalidStringLength")
    ELSE IF \E i \in 1..Len(body) : ~IsHexChar(body[i]) THEN Err("InvalidHexCharacter")
    ELSE Ok(HexDigits(body))

\* serde's Deserialize of U128 / U256 from a JSON value: a string, the
\* prefix optional, between 1 and maxLen hex characters.
DeserializeUint(value, maxLen) ==
    IF value.t # "str" THEN Err(<<"invalid type, expected a (both 0x-prefixed or not) hex string">>)
    ELSE LET body == StripPrefix(value.v) IN
         IF Len(body) = 0 \/ Len(body) > maxLen THEN Err(<<"invalid length">>)
         ELSE IF \E i \in 1..Len(body) : ~IsHexChar(body[i]) THEN Err(<<"invalid hex character">>)
         ELSE Ok(HexDigits(body))

(***************************************************************************)
(* Decimal formatting ({} of a u32, Number::to_string).                    *)
(***************************************************************************)
RECURSIVE DivTen(_, _, _)
\* Long division of a hex digit sequence by ten: <<quotient digits, remainder>>.
DivTen(ds, rem, acc) ==
    IF ds = << >> THEN <<StripZeros(acc), rem>>
    ELSE LET cur == rem * 16 + Head(ds)
         IN DivTen(Tail(ds), cur % 10, Append(acc, cur \div 10))

RECURSIVE DecimalOf(_)
DecimalOf(ds) ==
    IF ds = << >> THEN << >>
    ELSE LET qr == DivTen(ds, 0, << >>)
         IN Append(DecimalOf(qr[1]), DecChar(qr[2]))

\* Display of an unsigned integer: zero prints as "0".
UintToString(ds) == IF ds = << >> THEN <<"0">> ELSE DecimalOf(ds)

\* serde_json::Number::to_string of an integer number.
NumberToString(n) ==
    IF n < 0 THEN <<"-">> \o UintToString(U(0 - n)) ELSE UintToString(U(n))

(***************************************************************************)
(* A panic (expect, unwrap, an overflow check) is a third outcome beside   *)
(* Ok and Err: it unwinds out of the handler and aborts the program.       *)
(***************************************************************************)
Panic(msg) == [tag |-> "Panic", v |-> msg]

(***************************************************************************)
(* Chain, Token and their Display.                                         *)
(***************************************************************************)
Named(name) == [chain |-> name, id |-> << >>]
Other(chain_id) == [chain |-> "Other", id |-> chain_id]

\* uint's as_u32: "Conversion to u32 with overflow checking", it panics when
\* the value does not fit 32 bits.
as_u32(x) ==
    IF Len(x) > U32_HEX_LEN THEN Panic("Integer overflow when casting to u32")
    ELSE Ok(x)

\* uint's as_u128, the same check at 128 bits.
as_u128(x) ==
    IF Len(x) > U128_HEX_LEN THEN Panic("Integer overflow when casting to u128")
    ELSE Ok(x)

\* Mutant of identify: the Goerli and Kovan arms swapped, and the open
\* variant losing its id.
identify_swapped(chain_id) ==
    CASE chain_id = U(1) -> Named("EthereumMainnet")
      [] chain_id = U(3) -> Named("EthereumRopstenTestNetwork")
      [] chain_id = U(4) -> Named("EthereumRinkebyTestNetwork")
      [] chain_id = U(5) -> Named("EthereumKovanTestNetwork")
      [] chain_id = U(42) -> Named("EthereumGoerliTestNetwork")
      [] chain_id = U(137) -> Named("PolygonMainnet")
      [] OTHER -> Other(U(0))

\* The match of to_chain over a u32.
identify(chain_id) ==
    CASE chain_id = U(1) -> Named("EthereumMainnet")
      [] chain_id = U(3) -> Named("EthereumRopstenTestNetwork")
      [] chain_id = U(4) -> Named("EthereumRinkebyTestNetwork")
      [] chain_id = U(5) -> Named("EthereumGoerliTestNetwork")
      [] chain_id = U(42) -> Named("EthereumKovanTestNetwork")
      [] chain_id = U(137) -> Named("PolygonMainnet")
      [] OTHER -> Other(chain_id)

\* Provider::to_chain(chain_id: U128) -> Chain
to_chain(chain_id) ==
    LET narrowed == as_u32(chain_id) IN
    IF narrowed.tag = "Panic" THEN narrowed ELSE Ok(identify(narrowed.v))

\* Chain::token
token(chain) ==
    CASE chain.chain \in {"EthereumMainnet", "EthereumRopstenTestNetwork",
                          "EthereumRinkebyTestNetwork", "EthereumKovanTestNetwork",
                          "EthereumGoerliTestNetwork"} -> "Ether"
      [] chain.chain = "PolygonMainnet" -> "Matic"
      [] chain.chain = "Other" -> "Other"

\* impl Display for Token
TokenDisplay(t) ==
    CASE t = "Ether" -> <<"ETH">>
      [] t = "Matic" -> <<"MATIC">>
      [] t = "Other" -> << >>

\* impl Display for Chain
ChainDisplay(chain) ==
    CASE chain.chain = "EthereumMainnet" -> <<"Ethereum Mainnet">>
      [] chain.chain = "EthereumRopstenTestNetwork" -> <<"Ethereum Ropsten Testnet">>
      [] chain.chain = "EthereumRinkebyTestNetwork" -> <<"Ethereum Rinkeby Testnet">>
      [] chain.chain = "EthereumKovanTestNetwork" -> <<"Ethereum Kovan Testnet">>
      [] chain.chain = "EthereumGoerliTestNetwork" -> <<"Ethereum Goerli Testnet">>
      [] chain.chain = "PolygonMainnet" -> <<"Polygon Mainnet">>
      [] chain.chain = "Other" -> <<"Other Network (">> \o UintToString(chain.id) \o <<")">>

(***************************************************************************)
(* serde's decoding of the payload types.                                  *)
(***************************************************************************)
Has(o, k) == k \in DOMAIN o

\* Option<String> field: absent or null is None, a string is Some, anything
\* else is an error.
OptString(o, k) ==
    IF ~Has(o, k) \/ o[k].t = "null" THEN Ok(None)
    ELSE IF o[k].t = "str" THEN Ok(Some(o[k].v))
    ELSE Err(<<"invalid type, expected a string">>)

\* Option<Value> field: absent or null is None, any other value is Some.
OptValue(o, k) ==
    IF ~Has(o, k) \/ o[k].t = "null" THEN None ELSE Some(o[k])

\* Vec<String>
DeserializeVecString(value) ==
    IF value.t # "arr" THEN Err(<<"invalid type, expected a sequence">>)
    ELSE IF \E i \in 1..Len(value.v) : value.v[i].t # "str"
         THEN Err(<<"invalid type, expected a string">>)
    ELSE Ok([i \in 1..Len(value.v) |-> value.v[i].v])

\* struct ProviderConnectInfo { chain_id: String }, camelCase
DeserializeProviderConnectInfo(value) ==
    IF value.t # "obj" THEN Err(<<"invalid type, expected struct ProviderConnectInfo">>)
    ELSE IF ~Has(value.v, "chainId") THEN Err(<<"missing field chainId">>)
    ELSE IF value.v["chainId"].t # "str" THEN Err(<<"invalid type, expected a string">>)
    ELSE Ok([chain_id |-> value.v["chainId"].v])

\* struct ProviderMessage { type: String, data: Value }
DeserializeProviderMessage(value) ==
    IF value.t # "obj" THEN Err(<<"invalid type, expected struct ProviderMessage">>)
    ELSE IF ~Has(value.v, "type") THEN Err(<<"missing field type">>)
    ELSE IF value.v["type"].t # "str" THEN Err(<<"invalid type, expected a string">>)
    ELSE IF ~Has(value.v, "data") THEN Err(<<"missing field data">>)
    ELSE Ok([message_type |-> value.v["type"].v, data |-> value.v["data"]])

\* struct ProviderRPCError { code: i64, message, data, stack }
DeserializeProviderRPCError(value) ==
    IF value.t # "obj" THEN Err(<<"invalid type, expected struct ProviderRPCError">>)
    ELSE IF ~Has(value.v, "code") THEN Err(<<"missing field code">>)
    ELSE IF value.v["code"].t # "num" THEN Err(<<"invalid type, expected i64">>)
    ELSE LET message == OptString(value.v, "message") IN
         IF message.tag = "Err" THEN message
         ELSE Ok([code |-> value.v["code"].v,
                  message |-> message.v,
                  data |-> OptValue(value.v, "data"),
                  stack |-> OptValue(value.v, "stack")])

\* JsValue::into_serde: JSON.stringify, then serde_json::from_str into T.
\* A value JSON.stringify cannot serialise decodes into nothing.
into_serde_Value(js) ==
    IF js.t = "unserialisable" THEN Err(<<"not serialisable">>) ELSE Ok(js)

(***************************************************************************)
(* Provider::request: normalisation, typed decode, error classification.   *)
(***************************************************************************)
\* Mutant of unwrap_or: the raw message is dropped for the default.
unwrap_or_default_only(opt, default) == default

\* Option::unwrap_or
unwrap_or(opt, default) == IF opt.some THEN opt.x ELSE default

Error(variant, fields) == [e |-> variant, f |-> fields]

\* Mutant of classify: the 4901 arm is missing, the 4100 arm answers with
\* the variant of 4001, and the open arm drops the data.
classify_arms_mixed(error) ==
    CASE error.code = 4001 ->
            Error("UserRejectedRequest",
                  [message |-> unwrap_or(error.message, <<"The user rejected the request.">>)])
      [] error.code = 4100 ->
            Error("UserRejectedRequest",
                  [message |-> unwrap_or(error.message,
                      <<"The requested method and/or account has not been authorized by the user.">>)])
      [] error.code = 4200 ->
            Error("UnsupportedMethod",
                  [message |-> unwrap_or(error.message,
                      <<"The Provider does not support the requested method.">>)])
      [] error.code = 4900 ->
            Error("Disconnected",
                  [message |-> unwrap_or(error.message,
                      <<"The Provider is disconnected from all chains.">>)])
      [] OTHER ->
            Error("ProviderRpcError",
                  [code |-> error.code, message |-> error.message,
                   data |-> None, stack |-> error.stack])

\* The match on error.code of request's Err arm.
classify(error) ==
    CASE error.code = 4001 ->
            Error("UserRejectedRequest",
                  [message |-> unwrap_or(error.message, <<"The user rejected the request.">>)])
      [] error.code = 4100 ->
            Error("Unauthorised",
                  [message |-> unwrap_or(error.message,
                      <<"The requested method and/or account has not been authorized by the user.">>)])
      [] error.code = 4200 ->
            Error("UnsupportedMethod",
                  [message |-> unwrap_or(error.message,
                      <<"The Provider does not support the requested method.">>)])
      [] error.code = 4900 ->
            Error("Disconnected",
                  [message |-> unwrap_or(error.message,
                      <<"The Provider is disconnected from all chains.">>)])
      [] error.code = 4901 ->
            Error("ChainDisconnected",
                  [message |-> unwrap_or(error.message,
                      <<"The Provider is not connected to the requested chain.">>)])
      [] OTHER ->
            Error("ProviderRpcError",
                  [code |-> error.code, message |-> error.message,
                   data |-> error.data, stack |-> error.stack])

\* Mutant of normalise: the rewrite of a number is left out.
normalise_skipped(value) == value

\* "Handle zero being returned as an integer": a JSON number becomes the
\* JSON string of its decimal form, any other value is left as it is.
normalise(value) ==
    IF value.t = "num" THEN JStr(NumberToString(value.v)) ELSE value

\* serde_json::from_value::<T>
from_value(T, value) ==
    CASE T = "Vec<String>" -> DeserializeVecString(value)
      [] T = "U256" -> DeserializeUint(value, U256_HEX_LEN)
      [] T = "U128" -> DeserializeUint(value, U128_HEX_LEN)

\* The Ok arm of request.
request_ok(T, result) ==
    LET parsed == into_serde_Value(result) IN
    IF parsed.tag = "Err" THEN Panic("could not deserialize result")
    ELSE LET decoded == from_value(T, normalise(parsed.v)) IN
         IF decoded.tag = "Ok" THEN Ok(decoded.v)
         ELSE Err(Error("DeserialisationError", [detail |-> decoded.v]))

\* The Err arm of request.
request_err(e) ==
    LET parsed == into_serde_Value(e) IN
    LET error == IF parsed.tag = "Err" THEN parsed
                 ELSE DeserializeProviderRPCError(parsed.v) IN
    IF error.tag = "Err"
    THEN Panic("could not deserialise error into a provider rpc error")
    ELSE Err(classify(error.v))

\* What the provider did with one call: [kind |-> "resolve" | "reject", raw |-> JsValue].
Resolved(raw) == [kind |-> "resolve", raw |-> raw]
Rejected(raw) == [kind |-> "reject", raw |-> raw]

\* Provider::request::<T>, from the provider's answer on.
request(T, outcome) ==
    IF outcome.kind = "resolve" THEN request_ok(T, outcome.raw)
    ELSE request_err(outcome.raw)

\* struct RequestArguments
RequestArguments(method, params) == [method |-> method, params |-> params]

CONVERSION_UNIT_EXP == 18

\* Provider::request_accounts, after the await
request_accounts(outcome) == request("Vec<String>", outcome)

\* Provider::balance, after the await: the quotient balance / 10^18 is kept as
\* its numerator and the exponent of its denominator.
balance(outcome) ==
    LET r == request("U256", outcome) IN
    IF r.tag # "Ok" THEN r
    ELSE LET wide == as_u128(r.v) IN
         IF wide.tag = "Panic" THEN wide
         ELSE Ok([wei |-> wide.v, unit_exp |-> CONVERSION_UNIT_EXP])

\* Provider::chain, after the await
chain(outcome) ==
    LET r == request("U128", outcome) IN
    IF r.tag # "Ok" THEN r ELSE to_chain(r.v)

\* The arguments each high-level call builds.
ArgsOf(op, address) ==
    CASE op = "request_accounts" -> RequestArguments("eth_requestAccounts", << >>)
      [] op = "balance" -> RequestArguments("eth_getBalance", <<JStr(address), JStr(<<"latest">>)>>)
      [] op = "chain" -> RequestArguments("eth_chainId", << >>)

\* A caller's suspended call, and what it returns once the provider answers.
respond(call, outcome) ==
    CASE call.op = "request_accounts" -> request_accounts(outcome)
      [] call.op = "balance" -> balance(outcome)
      [] call.op = "chain" -> chain(outcome)

(***************************************************************************)
(* The event handlers.  A listener is [event, f]: the event name it was    *)
(* registered under and the caller's callback (0 for the message handler,  *)
(* which has none).                                                        *)
(***************************************************************************)
EventNames == {"message", "connect", "accountsChanged", "chainChanged", "disconnect"}

Listener(event, f) == [event |-> event, f |-> f]

\* A handler's run: Ok(what it passed to its callback) or a panic.
message_handler(message) ==
    LET parsed == into_serde_Value(message) IN
    LET m == IF parsed.tag = "Err" THEN parsed ELSE DeserializeProviderMessage(parsed.v) IN
    IF m.tag = "Err" THEN Panic("could not deserialise message as ProviderMessage")
    ELSE Ok(m.v)

connect_handler(connect_info) ==
    LET parsed == into_serde_Value(connect_info) IN
    LET info == IF parsed.tag = "Err" THEN parsed
                ELSE DeserializeProviderConnectInfo(parsed.v) IN
    IF info.tag = "Err"
    THEN Panic("could not deserialise connectInfo as ProviderConnectInfo")
    ELSE LET chain_id == U128_from_str(info.v.chain_id) IN
         IF chain_id.tag = "Err" THEN Panic("could not parse chain id")
         ELSE to_chain(chain_id.v)

\* Mutant of accounts_changed_handler: unwrap_or_default in place of expect,
\* so a payload that does not decode reaches the callback as an empty list.
accounts_changed_handler_defaulting(accounts) ==
    LET parsed == into_serde_Value(accounts) IN
    LET a == IF parsed.tag = "Err" THEN parsed ELSE DeserializeVecString(parsed.v) IN
    IF a.tag = "Err" THEN Ok(<< >>)
    ELSE Ok(a.v)

accounts_changed_handler(accounts) ==
    LET parsed == into_serde_Value(accounts) IN
    LET a == IF parsed.tag = "Err" THEN parsed ELSE DeserializeVecString(parsed.v) IN
    IF a.tag = "Err" THEN Panic("could not deserialise acounts as String[]")
    ELSE Ok(a.v)

chain_changed_handler(chain_id) ==
    LET parsed == into_serde_Value(chain_id) IN
    LET id == IF parsed.tag = "Err" THEN parsed
              ELSE DeserializeUint(parsed.v, U128_HEX_LEN) IN
    IF id.tag = "Err" THEN Panic("could not deserialise chainId as String")
    ELSE to_chain(id.v)

disconnect_handler(error) ==
    LET parsed == into_serde_Value(error) IN
    LET e == IF parsed.tag = "Err" THEN parsed
             ELSE DeserializeProviderRPCError(parsed.v) IN
    IF e.tag = "Err" THEN Panic("could not deserialise error as ProviderRPCError")
    ELSE Ok(e.v)

handler(event, payload) ==
    CASE event = "message" -> message_handler(payload)
      [] event = "connect" -> connect_handler(payload)
      [] event = "accountsChanged" -> accounts_changed_handler(payload)
      [] event = "chainChanged" -> chain_changed_handler(payload)
      [] event = "disconnect" -> disconnect_handler(payload)

\* EthereumProvider.on(eventName, listener)
on(ls, eventName, f) == Append(ls, Listener(eventName, f))

RECURSIVE emit(_, _, _, _, _)
\* The host's emit: the listeners of the event run in registration order, on
\* the same payload; a panic unwinds out of emit and the rest never run.
emit(ls, i, event, payload, acc) ==
    IF i > Len(ls) THEN acc
    ELSE IF ls[i].event # event THEN emit(ls, i + 1, event, payload, acc)
    ELSE LET r == handler(event, payload) IN
         IF r.tag = "Panic" THEN [acc EXCEPT !.panic = r.v]
         ELSE IF event = "message"
              THEN emit(ls, i + 1, event, payload,
                        [acc EXCEPT !.console = Append(@, r.v)])
              ELSE emit(ls, i + 1, event, payload,
                        [acc EXCEPT !.invoked = Append(@, [listener |-> i, f |-> ls[i].f, arg |-> r.v])])

(***************************************************************************)
(* The inputs the host may supply.                                         *)
(***************************************************************************)
Hex_1 == <<"0", "x", "1">>
Hex_2 == <<"0", "x", "2">>
Hex_3 == <<"0", "x", "3">>
Hex_4 == <<"0", "x", "4">>
Hex_5 == <<"0", "x", "5">>
Hex_2a == <<"0", "x", "2", "a">>
Hex_89 == <<"0", "x", "8", "9">>
Hex_0 == <<"0", "x", "0">>
Hex_u32_max == <<"0", "x", "f", "f", "F", "F", "f", "f", "f", "f">>
Hex_2_pow_32 == <<"0", "x", "1", "0", "0", "0", "0", "0", "0", "0", "0">>
Hex_2_pow_128 == <<"0", "x", "1">> \o [i \in 1..U128_HEX_LEN |-> "0"]
Hex_bare_5 == <<"5">>
Hex_bad == <<"0", "x", "z">>
Hex_empty == <<"0", "x">>

ChainIdTexts ==
    <<Hex_1, Hex_2, Hex_3, Hex_4, Hex_5, Hex_2a, Hex_89, Hex_0, Hex_u32_max,
      Hex_2_pow_32, Hex_2_pow_128, Hex_bare_5, Hex_bad, Hex_empty>>

AddressA == <<"0xA">>
AddressB == <<"0xB">>
Addresses == {AddressA}

\* The input collections are sequences: their members are of different
\* shapes, and only a sequence holds such members without comparing them.
RECURSIVE Flatten(_)
Flatten(ss) == IF ss = << >> THEN << >> ELSE Head(ss) \o Flatten(Tail(ss))

\* What the provider may resolve a call with.
Responses ==
    [i \in 1..Len(ChainIdTexts) |-> JStr(ChainIdTexts[i])]
    \o <<JNum(0), JNum(10), JNull, NotJson,
         JArr(<<JStr(AddressA)>>), JArr(<<JStr(AddressA), JStr(AddressB)>>),
         JArr(<<JNum(1)>>), JObj([result |-> JStr(Hex_1)])>>

ErrorCodes == <<4001, 4100, 4200, 4900, 4901, 4000, 0 - 32603>>
ErrorData == JObj([cause |-> JStr(<<"c">>)])
ErrorStack == JStr(<<"at request">>)

ErrorObject(code, message, extra) ==
    JObj([k \in {"code"} \cup (IF message.some THEN {"message"} ELSE {})
                         \cup (IF extra THEN {"data", "stack"} ELSE {}) |->
            CASE k = "code" -> JNum(code)
              [] k = "message" -> JStr(message.x)
              [] k = "data" -> ErrorData
              [] k = "stack" -> ErrorStack])

ErrorObjects(code) ==
    <<ErrorObject(code, None, FALSE), ErrorObject(code, None, TRUE),
      ErrorObject(code, Some(<<"denied">>), FALSE), ErrorObject(code, Some(<<"denied">>), TRUE)>>

\* What the provider may reject a call with.
RawErrors ==
    Flatten([i \in 1..Len(ErrorCodes) |-> ErrorObjects(ErrorCodes[i])])
    \o <<JStr(<<"boom">>), JObj([message |-> JStr(<<"no code">>)]), NotJson>>

ConnectIdTexts == <<Hex_1, Hex_89, Hex_2, Hex_2_pow_32, Hex_bad, Hex_bare_5>>

\* The events the host may emit: <<event name, payload>>.
Deliveries ==
    [i \in 1..Len(ChainIdTexts) |-> <<"chainChanged", JStr(ChainIdTexts[i])>>]
    \o <<<<"chainChanged", JNum(5)>>, <<"chainChanged", JNull>>, <<"chainChanged", NotJson>>>>
    \o [i \in 1..Len(ConnectIdTexts) |-> <<"connect", JObj([chainId |-> JStr(ConnectIdTexts[i])])>>]
    \o <<<<"connect", JObj([chain |-> JStr(Hex_1)])>>,
         <<"connect", JStr(Hex_1)>>,
         <<"connect", JObj([chainId |-> JNum(1)])>>,
         <<"accountsChanged", JArr(<< >>)>>,
         <<"accountsChanged", JArr(<<JStr(AddressA)>>)>>,
         <<"accountsChanged", JArr(<<JStr(AddressB), JStr(AddressA)>>)>>,
         <<"accountsChanged", JArr(<<JStr(AddressA), JNum(1)>>)>>,
         <<"accountsChanged", JNull>>,
         <<"disconnect", ErrorObject(4900, Some(<<"gone">>), FALSE)>>,
         <<"disconnect", ErrorObject(1013, None, TRUE)>>,
         <<"disconnect", JObj([code |-> JNum(4900), message |-> JNull])>>,
         <<"disconnect", JObj([code |-> JNum(4900), message |-> JNum(1)])>>,
         <<"disconnect", JObj([message |-> JStr(<<"gone">>)])>>,
         <<"disconnect", JStr(<<"gone">>)>>,
         <<"message", JObj([type |-> JStr(<<"eth_subscription">>), data |-> JNull])>>,
         <<"message", JObj([type |-> JStr(<<"eth_subscription">>)])>>,
         <<"message", JStr(<<"hello">>)>>>>

\* The smaller inputs of the specification that interleaves everything.
SomeResponses == <<JStr(Hex_1), JNum(0)>>
SomeRawErrors == <<ErrorObject(4000, Some(<<"denied">>), TRUE)>>
SomeDeliveries ==
    <<<<"chainChanged", JStr(Hex_5)>>, <<"chainChanged", JNull>>,
      <<"accountsChanged", JArr(<<JStr(AddressA)>>)>>>>

(***************************************************************************)
(* The state machine.                                                      *)
(***************************************************************************)
Ops == {"request_accounts", "balance", "chain"}
Idle == [op |-> "idle", args |-> << >>]
NoLast == [kind |-> "none"]

RECURSIVE Count(_, _)
\* The listeners registered under an event name.
Count(ls, event) ==
    IF ls = << >> THEN 0
    ELSE (IF Head(ls).event = event THEN 1 ELSE 0) + Count(Tail(ls), event)

\* The subscription calls made so far (the message listener is not one).
Subscribed == Len(listeners) - Count(listeners, "message")

Init ==
    /\ window_ethereum \in BOOLEAN
    /\ provider = "unconstructed"
    /\ listeners = << >>
    /\ calls = [e \in EventNames |-> 0]
    /\ inflight = [id \in 1..MaxRequests |-> Idle]
    /\ last = NoLast
    /\ panicked = "none"

\* Provider::new
New ==
    /\ provider = "unconstructed"
    /\ panicked = "none"
    /\ IF window_ethereum
       THEN /\ listeners' = on(listeners, "message", 0)
            /\ calls' = [calls EXCEPT !["message"] = @ + 1]
            /\ provider' = "Some"
       ELSE /\ provider' = "None"
            /\ UNCHANGED <<listeners, calls>>
    /\ UNCHANGED <<window_ethereum, inflight, last, panicked>>

\* The body shared by the four subscription methods: wrap the callback in a
\* handler, register it under the event name, forget the handler.
Subscribe(eventName) ==
    /\ provider = "Some"
    /\ panicked = "none"
    /\ Subscribed < MaxListeners
    /\ listeners' = on(listeners, eventName, Subscribed + 1)
    /\ calls' = [calls EXCEPT ![eventName] = @ + 1]
    /\ UNCHANGED <<window_ethereum, provider, inflight, last, panicked>>

\* Mutant of on_disconnect: the handler is registered under "connect".
on_disconnect_as_connect ==
    /\ provider = "Some"
    /\ panicked = "none"
    /\ Subscribed < MaxListeners
    /\ listeners' = on(listeners, "connect", Subscribed + 1)
    /\ calls' = [calls EXCEPT !["disconnect"] = @ + 1]
    /\ UNCHANGED <<window_ethereum, provider, inflight, last, panicked>>

on_connect == Subscribe("connect")
on_accounts_changed == Subscribe("accountsChanged")
on_chain_changed == Subscribe("chainChanged")
on_disconnect == Subscribe("disconnect")

\* request_accounts / balance / chain up to the await in request().
Call(id, op, address) ==
    /\ provider = "Some"
    /\ panicked = "none"
    /\ inflight[id].op = "idle"
    /\ inflight' = [inflight EXCEPT ![id] = [op |-> op, args |-> ArgsOf(op, address)]]
    /\ UNCHANGED <<window_ethereum, provider, listeners, calls, last, panicked>>

\* Mutant of Returned: the previous answer is served again to the next call
\* of the same kind (a response cache shared between requests).
ReturnedCached(id, outcome) ==
    [kind |-> "returned", id |-> id, call |-> inflight[id], outcome |-> outcome,
     result |-> IF last.kind = "returned" /\ last.call.op = inflight[id].op
                THEN last.result
                ELSE respond(inflight[id], outcome)]

\* What the caller of slot id gets back when the provider answers.
Returned(id, outcome) ==
    [kind |-> "returned", id |-> id, call |-> inflight[id], outcome |-> outcome,
     result |-> respond(inflight[id], outcome)]

\* The provider settles the promise of slot id; request() and the high-level
\* call run to their end.
Settle(id, outcome) ==
    /\ panicked = "none"
    /\ inflight[id].op # "idle"
    /\ last' = Returned(id, outcome)
    /\ panicked' = IF last'.result.tag = "Panic" THEN last'.result.v ELSE "none"
    /\ inflight' = [inflight EXCEPT ![id] = Idle]
    /\ UNCHANGED <<window_ethereum, provider, listeners, calls>>

Resolve(id, raw) == Settle(id, Resolved(raw))
Reject(id, raw) == Settle(id, Rejected(raw))

\* The host emits an event.
Emit(event, payload) ==
    /\ window_ethereum
    /\ panicked = "none"
    /\ LET run == emit(listeners, 1, event, payload,
                       [invoked |-> << >>, console |-> << >>, panic |-> "none"])
       IN /\ last' = [kind |-> "delivered", event |-> event, payload |-> payload,
                      registered |-> Len(listeners),
                      invoked |-> run.invoked, console |-> run.console]
          /\ panicked' = run.panic
    /\ UNCHANGED <<window_ethereum, provider, listeners, calls, inflight>>

NextRequests ==
    \/ New
    \/ \E id \in 1..MaxRequests, op \in Ops, a \in Addresses : Call(id, op, a)
    \/ \E id \in 1..MaxRequests, i \in 1..Len(Responses) : Resolve(id, Responses[i])
    \/ \E id \in 1..MaxRequests, i \in 1..Len(RawErrors) : Reject(id, RawErrors[i])

NextEvents ==
    \/ New
    \/ on_connect
    \/ on_accounts_changed
    \/ on_chain_changed
    \/ on_disconnect
    \/ \E i \in 1..Len(Deliveries) : Emit(Deliveries[i][1], Deliveries[i][2])

Next ==
    \/ New
    \/ on_connect
    \/ on_accounts_changed
    \/ on_chain_changed
    \/ on_disconnect
    \/ \E id \in 1..MaxRequests, op \in Ops, a \in Addresses : Call(id, op, a)
    \/ \E id \in 1..MaxRequests, i \in 1..Len(SomeResponses) : Resolve(id, SomeResponses[i])
    \/ \E id \in 1..MaxRequests, i \in 1..Len(SomeRawErrors) : Reject(id, SomeRawErrors[i])
    \/ \E i \in 1..Len(SomeDeliveries) : Emit(SomeDeliveries[i][1], SomeDeliveries[i][2])

\* Requests alone, over every response and error.
SpecRequests == Init /\ [][NextRequests]_vars
\* Subscriptions and event deliveries alone, over every payload.
SpecEvents == Init /\ [][NextEvents]_vars
\* Everything interleaved.
Spec == Init /\ [][Next]_vars

(***************************************************************************)
(* Vocabulary of the properties, stated from the wire shapes and tables,   *)
(* not from the operators above.                                           *)
(***************************************************************************)
OptEq(a, b) == a.some = b.some /\ (a.some => a.x = b.x)

\* The wire shape of a failed call: an object with an integer code and, when
\* present, a string (or null) message.
IsRawProviderError(raw) ==
    /\ raw.t = "obj"
    /\ Has(raw.v, "code")
    /\ raw.v["code"].t = "num"
    /\ Has(raw.v, "message") => raw.v["message"].t \in {"str", "null"}

RawText(o, k) == IF Has(o, k) /\ o[k].t = "str" THEN Some(o[k].v) ELSE None
RawValue(o, k) == IF Has(o, k) /\ o[k].t # "null" THEN Some(o[k]) ELSE None

NamedCodes == {4001, 4100, 4200, 4900, 4901}

VariantOfCode(code) ==
    CASE code = 4001 -> "UserRejectedRequest"
      [] code = 4100 -> "Unauthorised"
      [] code = 4200 -> "UnsupportedMethod"
      [] code = 4900 -> "Disconnected"
      [] code = 4901 -> "ChainDisconnected"
      [] OTHER -> "ProviderRpcError"

DefaultMessage(code) ==
    CASE code = 4001 -> <<"The user rejected the request.">>
      [] code = 4100 -> <<"The requested method and/or account has not been authorized by the user.">>
      [] code = 4200 -> <<"The Provider does not support the requested method.">>
      [] code = 4900 -> <<"The Provider is disconnected from all chains.">>
      [] code = 4901 -> <<"The Provider is not connected to the requested chain.">>

\* A hex chain-id text: "0x" and then 1 to maxLen hex characters.
IsPrefixedHex(text, maxLen) ==
    /\ Len(text) >= 3
    /\ Len(text) <= maxLen + 2
    /\ text[1] = "0"
    /\ text[2] = "x"
    /\ \A i \in 3..Len(text) : IsHexChar(text[i])

\* A hex text with or without the prefix.
IsHex(text, maxLen) ==
    \/ IsPrefixedHex(text, maxLen)
    \/ /\ Len(text) >= 1
       /\ Len(text) <= maxLen
       /\ \A i \in 1..Len(text) : IsHexChar(text[i])

ValueOfHex(text) == HexDigits(StripPrefix(text))

\* The low 32 bits of a value.
Low32(x) ==
    IF Len(x) <= U32_HEX_LEN THEN x
    ELSE StripZeros(SubSeq(x, Len(x) - U32_HEX_LEN + 1, Len(x)))

\* The registry's table, by the hex digits of the id.
ExpectedChainName(id) ==
    CASE id = <<1>> -> "EthereumMainnet"
      [] id = <<3>> -> "EthereumRopstenTestNetwork"
      [] id = <<4>> -> "EthereumRinkebyTestNetwork"
      [] id = <<5>> -> "EthereumGoerliTestNetwork"
      [] id = <<2, 10>> -> "EthereumKovanTestNetwork"
      [] id = <<8, 9>> -> "PolygonMainnet"
      [] OTHER -> "Other"

RECURSIVE MulTenAdd(_, _)
\* ds * 10 + carry over hex digits, carry below 16.
MulTenAdd(ds, carry) ==
    IF ds = << >> THEN (IF carry = 0 THEN << >> ELSE <<carry>>)
    ELSE LET x == ds[Len(ds)] * 10 + carry
         IN Append(MulTenAdd(SubSeq(ds, 1, Len(ds) - 1), x \div 16), x % 16)

IsDecimal(text) ==
    /\ text # << >>
    /\ \A i \in 1..Len(text) : text[i] \in {"0", "1", "2", "3", "4", "5", "6", "7", "8", "9"}
    /\ Len(text) > 1 => text[1] # "0"

RECURSIVE ValueOfDecimal(_)
\* The value a decimal text denotes, as hex digits.
ValueOfDecimal(text) ==
    IF text = << >> THEN << >>
    ELSE MulTenAdd(ValueOfDecimal(SubSeq(text, 1, Len(text) - 1)), HexVal(text[Len(text)]))

\* The invocations of the last delivery that went to listener i.
InvocationsOf(i) == {k \in 1..Len(last.invoked) : last.invoked[k].listener = i}

\* The listeners that were registered under the event when the last
\* delivery was made.
ListenersOf(event) == {i \in 1..last.registered : listeners[i].event = event}

(***************************************************************************)
(* C1.  A rejected call whose raw error has the wire shape is classified   *)
(* by its code alone: 4001, 4100, 4200, 4900, 4901 give their named        *)
(* variant, any other code gives ProviderRpcError carrying the raw code,   *)
(* message, data and stack unchanged.  Every such error gives one variant. *)
(***************************************************************************)
C1_ErrorClassification ==
    (last.kind = "returned" /\ last.outcome.kind = "reject"
        /\ IsRawProviderError(last.outcome.raw)) =>
        LET raw == last.outcome.raw.v
            code == raw["code"].v
            r == last.result
        IN /\ r.tag = "Err"
           /\ r.v.e = VariantOfCode(code)
           /\ code \notin NamedCodes =>
                  /\ r.v.f.code = code
                  /\ OptEq(r.v.f.message, RawText(raw, "message"))
                  /\ OptEq(r.v.f.data, RawValue(raw, "data"))
                  /\ OptEq(r.v.f.stack, RawValue(raw, "stack"))

\* A call rejected with an unnamed code, a message, data and a stack came
\* back as ProviderRpcError.
C1_Witness ==
    /\ last.kind = "returned"
    /\ last.outcome.kind = "reject"
    /\ IsRawProviderError(last.outcome.raw)
    /\ last.outcome.raw.v["code"].v = 0 - 32603
    /\ Has(last.outcome.raw.v, "data")
    /\ Has(last.outcome.raw.v, "message")
    /\ last.result.tag = "Err"
    /\ last.result.v.e = "ProviderRpcError"

(***************************************************************************)
(* C2.  For the five named codes the classified error's message is the raw *)
(* message when there is one and the code's default message otherwise.     *)
(***************************************************************************)
C2_DefaultMessages ==
    (last.kind = "returned" /\ last.outcome.kind = "reject"
        /\ IsRawProviderError(last.outcome.raw)
        /\ last.outcome.raw.v["code"].v \in NamedCodes) =>
        LET raw == last.outcome.raw.v
            given == RawText(raw, "message")
        IN /\ last.result.tag = "Err"
           /\ last.result.v.f.message =
                  (IF given.some THEN given.x ELSE DefaultMessage(raw["code"].v))

\* Code 4001 without a message came back with the default message.
C2_Witness ==
    /\ last.kind = "returned"
    /\ last.outcome.kind = "reject"
    /\ IsRawProviderError(last.outcome.raw)
    /\ last.outcome.raw.v["code"].v = 4001
    /\ ~Has(last.outcome.raw.v, "message")
    /\ last.result.tag = "Err"
    /\ last.result.v.e = "UserRejectedRequest"
    /\ last.result.v.f.message = <<"The user rejected the request.">>

(***************************************************************************)
(* C3.  The chain registry over 32-bit ids: 1, 3, 4, 5, 42, 137 give their *)
(* named chain, every other id gives Other carrying that id, displayed as  *)
(* "Other Network (<id in decimal>)".  Seen at the callbacks of connect    *)
(* and chainChanged, which receive to_chain's result.                      *)
(***************************************************************************)
\* The chain-id text of the last delivery, when the payload has the wire
\* shape and the id fits 32 bits.
DeliveredIdText ==
    IF last.event = "chainChanged" /\ last.payload.t = "str"
    THEN Some(last.payload.v)
    ELSE IF last.event = "connect" /\ last.payload.t = "obj"
            /\ Has(last.payload.v, "chainId") /\ last.payload.v["chainId"].t = "str"
    THEN Some(last.payload.v["chainId"].v)
    ELSE None

DeliveredU32 ==
    /\ last.kind = "delivered"
    /\ DeliveredIdText.some
    /\ IsPrefixedHex(DeliveredIdText.x, U128_HEX_LEN)
    /\ Len(ValueOfHex(DeliveredIdText.x)) <= U32_HEX_LEN

IsDisplayOfOther(text, id) ==
    /\ Len(text) >= 3
    /\ text[1] = "Other Network ("
    /\ text[Len(text)] = ")"
    /\ IsDecimal(SubSeq(text, 2, Len(text) - 1))
    /\ ValueOfDecimal(SubSeq(text, 2, Len(text) - 1)) = id

C3_ChainRegistry ==
    DeliveredU32 =>
        LET id == ValueOfHex(DeliveredIdText.x) IN
        /\ panicked = "none"
        /\ \A i \in ListenersOf(last.event) : InvocationsOf(i) # {}
        /\ \A k \in 1..Len(last.invoked) :
              LET c == last.invoked[k].arg IN
              /\ c.chain = ExpectedChainName(id)
              /\ c.chain = "Other" => (c.id = id /\ IsDisplayOfOther(ChainDisplay(c), id))

\* The largest 32-bit id reached a chainChanged callback as Other, displayed
\* in decimal.
C3_Witness ==
    /\ DeliveredU32
    /\ last.event = "chainChanged"
    /\ ValueOfHex(DeliveredIdText.x) = <<15, 15, 15, 15, 15, 15, 15, 15>>
    /\ Len(last.invoked) >= 1
    /\ last.invoked[1].arg.chain = "Other"
    /\ ChainDisplay(last.invoked[1].arg)
         = <<"Other Network (", "4", "2", "9", "4", "9", "6", "7", "2", "9", "5", ")">>

(***************************************************************************)
(* C4.  chain(): every eth_chainId response that decodes to a 128-bit      *)
(* unsigned integer v completes with the chain the registry gives for v    *)
(* narrowed to 32 bits ("0x1": EthereumMainnet, token "ETH"; "0x89":       *)
(* PolygonMainnet, token "MATIC").                                         *)
(***************************************************************************)
C4_ChainCompletes ==
    (last.kind = "returned" /\ last.call.op = "chain"
        /\ last.outcome.kind = "resolve" /\ last.outcome.raw.t = "str"
        /\ IsHex(last.outcome.raw.v, U128_HEX_LEN)) =>
        LET v == ValueOfHex(last.outcome.raw.v) IN
        /\ last.result.tag = "Ok"
        /\ last.result.v.chain = ExpectedChainName(Low32(v))
        /\ v = <<1>> => TokenDisplay(token(last.result.v)) = <<"ETH">>
        /\ v = <<8, 9>> => TokenDisplay(token(last.result.v)) = <<"MATIC">>

(***************************************************************************)
(* C5.  A balance answered as the bare JSON number 0 and one answered as   *)
(* the hex string "0x0" both decode to the integer 0: the number is        *)
(* rewritten to its decimal string "0" before the typed decode.            *)
(***************************************************************************)
IsNumberZero(raw) == raw.t = "num" /\ raw.v = 0
IsHexZero(raw) == raw.t = "str" /\ raw.v = <<"0", "x", "0">>

C5_ZeroBalance ==
    (last.kind = "returned" /\ last.call.op = "balance"
        /\ last.outcome.kind = "resolve"
        /\ (IsNumberZero(last.outcome.raw) \/ IsHexZero(last.outcome.raw))) =>
        /\ last.result.tag = "Ok"
        /\ last.result.v.wei = << >>
        /\ IsNumberZero(last.outcome.raw) =>
              /\ normalise(last.outcome.raw).t = "str"
              /\ normalise(last.outcome.raw).v = <<"0">>

\* A balance call answered with the number 0 returned zero.
C5_Witness ==
    /\ last.kind = "returned"
    /\ last.call.op = "balance"
    /\ last.outcome.kind = "resolve"
    /\ IsNumberZero(last.outcome.raw)
    /\ last.result.tag = "Ok"
    /\ last.result.v.wei = << >>

(***************************************************************************)
(* C6.  Every call that resolves with a response that cannot be decoded    *)
(* into the caller's target type returns DeserialisationError: it never    *)
(* panics and never returns a success value.                               *)
(***************************************************************************)
TargetType(op) ==
    CASE op = "request_accounts" -> "Vec<String>"
      [] op = "balance" -> "U256"
      [] op = "chain" -> "U128"

\* The response has the shape the target type decodes from.
Decodable(T, raw) ==
    CASE T = "Vec<String>" -> raw.t = "arr" /\ \A i \in 1..Len(raw.v) : raw.v[i].t = "str"
      [] T = "U256" -> \/ raw.t = "num" /\ raw.v >= 0
                       \/ raw.t = "str" /\ IsHex(raw.v, U256_HEX_LEN)
      [] T = "U128" -> \/ raw.t = "num" /\ raw.v >= 0
                       \/ raw.t = "str" /\ IsHex(raw.v, U128_HEX_LEN)

C6_DecodeFailureIsTyped ==
    (last.kind = "returned" /\ last.outcome.kind = "resolve"
        /\ ~Decodable(TargetType(last.call.op), last.outcome.raw)) =>
        /\ last.result.tag = "Err"
        /\ last.result.v.e = "DeserialisationError"

(***************************************************************************)
(* C7.  Each delivery of a well-formed chainChanged payload (a hex         *)
(* chain-id string) invokes every callback registered with                 *)
(* on_chain_changed exactly once, with the chain of that id, and invokes   *)
(* no callback registered for another event.                               *)
(***************************************************************************)
C7_ChainChangedInvokesOnce ==
    (last.kind = "delivered" /\ last.event = "chainChanged"
        /\ last.payload.t = "str" /\ IsPrefixedHex(last.payload.v, U128_HEX_LEN)) =>
        /\ \A i \in ListenersOf("chainChanged") :
              /\ Cardinality(InvocationsOf(i)) = 1
              /\ \A k \in InvocationsOf(i) :
                    last.invoked[k].arg.chain
                        = ExpectedChainName(Low32(ValueOfHex(last.payload.v)))
        /\ \A k \in 1..Len(last.invoked) :
              listeners[last.invoked[k].listener].event = "chainChanged"

(***************************************************************************)
(* C8.  The listener set only grows: a step never removes or changes a     *)
(* registered listener, and under each event name there are exactly as     *)
(* many listeners as registrations were asked for (the message listener    *)
(* of the construction included).                                          *)
(***************************************************************************)
IsPrefixOf(a, b) == Len(a) <= Len(b) /\ SubSeq(b, 1, Len(a)) = a

OneListenerPerCall == \A e \in EventNames : Count(listeners, e) = calls[e]

C8_ListenersOnlyGrow ==
    /\ [](OneListenerPerCall)
    /\ [][IsPrefixOf(listeners, listeners')]_vars

\* Two callbacks registered for the same event beside the message
\* listener, after an event was delivered.
C8_Witness ==
    /\ calls["message"] = 1
    /\ calls["chainChanged"] = 2
    /\ Count(listeners, "chainChanged") = 2
    /\ Len(listeners) = 3
    /\ last.kind = "delivered"

(***************************************************************************)
(* C9.  A delivery whose payload fails structural validation, or whose     *)
(* chain id fails to parse, ends in a panic without invoking a callback;   *)
(* a callback is only ever invoked with the full decode of a well-formed   *)
(* payload.                                                                *)
(***************************************************************************)
WellFormed(event, payload) ==
    CASE event = "message" ->
            /\ payload.t = "obj"
            /\ Has(payload.v, "type")
            /\ payload.v["type"].t = "str"
            /\ Has(payload.v, "data")
      [] event = "connect" ->
            /\ payload.t = "obj"
            /\ Has(payload.v, "chainId")
            /\ payload.v["chainId"].t = "str"
            /\ IsHex(payload.v["chainId"].v, U128_HEX_LEN)
      [] event = "accountsChanged" ->
            /\ payload.t = "arr"
            /\ \A i \in 1..Len(payload.v) : payload.v[i].t = "str"
      [] event = "chainChanged" ->
            /\ payload.t = "str"
            /\ IsHex(payload.v, U128_HEX_LEN)
      [] event = "disconnect" -> IsRawProviderError(payload)

\* arg is the whole of what the payload holds.
FullyDecoded(event, payload, arg) ==
    CASE event = "connect" ->
            LET id == ValueOfHex(payload.v["chainId"].v) IN
            /\ arg.chain = ExpectedChainName(id)
            /\ arg.chain = "Other" => arg.id = id
      [] event = "chainChanged" ->
            LET id == ValueOfHex(payload.v) IN
            /\ arg.chain = ExpectedChainName(id)
            /\ arg.chain = "Other" => arg.id = id
      [] event = "accountsChanged" ->
            /\ Len(arg) = Len(payload.v)
            /\ \A i \in 1..Len(arg) : arg[i] = payload.v[i].v
      [] event = "disconnect" ->
            /\ arg.code = payload.v["code"].v
            /\ OptEq(arg.message, RawText(payload.v, "message"))
            /\ OptEq(arg.data, RawValue(payload.v, "data"))
            /\ OptEq(arg.stack, RawValue(payload.v, "stack"))

ErrorEq(a, b) ==
    /\ a.e = b.e
    /\ CASE a.e = "ProviderRpcError" ->
                /\ a.f.code = b.f.code
                /\ OptEq(a.f.message, b.f.message)
                /\ OptEq(a.f.data, b.f.data)
                /\ OptEq(a.f.stack, b.f.stack)
         [] a.e = "DeserialisationError" -> a.f.detail = b.f.detail
         [] OTHER -> a.f.message = b.f.message

ResultEq(a, b) ==
    /\ a.tag = b.tag
    /\ CASE a.tag = "Err" -> ErrorEq(a.v, b.v)
         [] OTHER -> a.v = b.v

OwnResult(op, outcome) ==
    CASE op = "request_accounts" -> request_accounts(outcome)
      [] op = "balance" -> balance(outcome)
      [] op = "chain" -> chain(outcome)

SettledAlone(id) ==
    /\ last'.kind = "returned"
    /\ last'.id = id
    /\ last'.call.op = inflight[id].op
    /\ last'.call.args.method = inflight[id].args.method
    /\ ResultEq(last'.result, OwnResult(inflight[id].op, last'.outcome))
    /\ \A j \in (1..MaxRequests) \ {id} : inflight'[j].op = inflight[j].op
    /\ listeners' = listeners
    /\ calls' = calls

====
